---- MODULE Spec2Model ----
(***************************************************************************)
(* Card detection pipeline of the Set solver (lib/detect-cards):           *)
(* detectCards (retry controller), detectCardsFromBuffer (one pipeline     *)
(* pass: region extractor, grid completer, orderer and cropper) and the    *)
(* helpers median, clusterValues and inferMissingGridCards.                *)
(*                                                                         *)
(* Numbers.  Rect coordinates are integer pixels.  Centers, medians and    *)
(* tolerances are multiples of 1/4 pixel (x + w/2, (a + b)/2, med * 0.5);  *)
(* the model carries them as integers in QUARTER pixels (names ending in   *)
(* 4), which is exact: all of them are small dyadic rationals, so the      *)
(* IEEE doubles of the program hold them without rounding error.           *)
(* Math.round(v) is floor(v + 1/2).                                        *)
(***************************************************************************)
EXTENDS Integers, Sequences, FiniteSets, TLC

\* ---------------------------------------------------------------- constants
CV_MAX_DIM == 1000
GRID_MIN_CARDS == 6

\* ------------------------------------------------------------------ numbers
Abs(a) == IF a < 0 THEN -a ELSE a
Max(a, b) == IF a >= b THEN a ELSE b
Min(a, b) == IF a <= b THEN a ELSE b

\* Math.round(n / d) for d > 0: the nearest integer, ties towards +infinity.
RoundDiv(n, d) == (2 * n + d) \div (2 * d)

\* [...values].sort((a, b) => a - b): insertion into an ascending sequence.
RECURSIVE InsertNum(_, _)
InsertNum(v, s) ==
    IF s = <<>> THEN <<v>>
    ELSE IF v < Head(s) THEN <<v>> \o s
    ELSE <<Head(s)>> \o InsertNum(v, Tail(s))

RECURSIVE SortNum(_)
SortNum(s) ==
    IF s = <<>> THEN <<>>
    ELSE InsertNum(s[Len(s)], SortNum(SubSeq(s, 1, Len(s) - 1)))

\* median(values): middle element, or the mean of the two middle elements.
\* The values are even multiples of the quarter-pixel unit wherever the
\* length can be even, so the division by 2 is exact.
median(values) ==
    LET sorted == SortNum(values)
        mid == Len(sorted) \div 2
    IN  IF Len(sorted) % 2 = 1 THEN sorted[mid + 1]
        ELSE (sorted[mid] + sorted[mid + 1]) \div 2

\* Variant of clusterValues with a slip: a gap equal to the threshold starts
\* a new cluster.
RECURSIVE ClusterFrom_Strict(_, _, _, _)
ClusterFrom_Strict(sorted, i, clusters, threshold) ==
    IF i > Len(sorted) THEN clusters
    ELSE LET n == Len(clusters)
         IN  IF sorted[i] - sorted[i - 1] < threshold
             THEN ClusterFrom_Strict(sorted, i + 1,
                      [clusters EXCEPT ![n] = Append(@, sorted[i])], threshold)
             ELSE ClusterFrom_Strict(sorted, i + 1,
                      Append(clusters, <<sorted[i]>>), threshold)

clusterValues_Strict(values, threshold) ==
    LET sorted == SortNum(values)
    IN  ClusterFrom_Strict(sorted, 2, << <<sorted[1]>> >>, threshold)

\* clusterValues(values, threshold): single linkage over the sorted values.
RECURSIVE ClusterFrom(_, _, _, _)
ClusterFrom(sorted, i, clusters, threshold) ==
    IF i > Len(sorted) THEN clusters
    ELSE LET n == Len(clusters)
         IN  IF sorted[i] - sorted[i - 1] <= threshold
             THEN ClusterFrom(sorted, i + 1,
                      [clusters EXCEPT ![n] = Append(@, sorted[i])], threshold)
             ELSE ClusterFrom(sorted, i + 1,
                      Append(clusters, <<sorted[i]>>), threshold)

clusterValues(values, threshold) ==
    LET sorted == SortNum(values)
    IN  ClusterFrom(sorted, 2, << <<sorted[1]>> >>, threshold)

\* -------------------------------------------------------------------- rects
Rect(x, y, w, h) == [x |-> x, y |-> y, w |-> w, h |-> h]
CenterX4(r) == 4 * r.x + 2 * r.w
CenterY4(r) == 4 * r.y + 2 * r.h

Width4(r) == 4 * r.w
Height4(r) == 4 * r.h

\* The grid inferMissingGridCards measures on a non-empty list of rects:
\* medW and medH, and the sorted column and row centers (the medians of the
\* clusters of the centers, clustered with thresholds medW * 0.5, medH * 0.5).
GridOf(rects) ==
    LET mW4 == median([i \in 1..Len(rects) |-> Width4(rects[i])])
        mH4 == median([i \in 1..Len(rects) |-> Height4(rects[i])])
        colClusters == clusterValues([i \in 1..Len(rects) |-> CenterX4(rects[i])], mW4 \div 2)
        rowClusters == clusterValues([i \in 1..Len(rects) |-> CenterY4(rects[i])], mH4 \div 2)
    IN  [medW4 |-> mW4,
         medH4 |-> mH4,
         colCenters4 |-> SortNum([i \in 1..Len(colClusters) |-> median(colClusters[i])]),
         rowCenters4 |-> SortNum([i \in 1..Len(rowClusters) |-> median(rowClusters[i])])]

\* ----------------------------------------------------------- grid completer
\* Variant with a slip: a quarter of the median as the tolerance.
nearby_Narrow(rects, colX4, rowY4, mW4, mH4) ==
    \E i \in 1..Len(rects) :
        /\ 4 * Abs(CenterX4(rects[i]) - colX4) < mW4
        /\ 4 * Abs(CenterY4(rects[i]) - rowY4) < mH4

\* rects.some(r => |cx - colX| < medW * 0.5 && |cy - rowY| < medH * 0.5)
nearby(rects, colX4, rowY4, mW4, mH4) ==
    \E i \in 1..Len(rects) :
        /\ 2 * Abs(CenterX4(rects[i]) - colX4) < mW4
        /\ 2 * Abs(CenterY4(rects[i]) - rowY4) < mH4

\* Variant with a slip: the intersection taken as the rect's corner.
synth_CornerAtCenter(colX4, rowY4, mW4, mH4) ==
    Rect(Max(0, RoundDiv(colX4, 4)),
         Max(0, RoundDiv(rowY4, 4)),
         RoundDiv(mW4, 4),
         RoundDiv(mH4, 4))

\* The synthetic rect of one empty grid intersection.
synth(colX4, rowY4, mW4, mH4) ==
    Rect(Max(0, RoundDiv(colX4 - mW4 \div 2, 4)),
         Max(0, RoundDiv(rowY4 - mH4 \div 2, 4)),
         RoundDiv(mW4, 4),
         RoundDiv(mH4, 4))

\* for (rowY of rowCenters) for (colX of colCenters): the rects pushed from
\* the k-th intersection on, k = 0 .. rows * cols - 1.
RECURSIVE SynthFrom(_, _, _)
SynthFrom(rects, g, k) ==
    IF k >= Len(g.colCenters4) * Len(g.rowCenters4) THEN <<>>
    ELSE LET rowY4 == g.rowCenters4[(k \div Len(g.colCenters4)) + 1]
             colX4 == g.colCenters4[(k % Len(g.colCenters4)) + 1]
         IN  IF nearby(rects, colX4, rowY4, g.medW4, g.medH4)
             THEN SynthFrom(rects, g, k + 1)
             ELSE <<synth(colX4, rowY4, g.medW4, g.medH4)>> \o SynthFrom(rects, g, k + 1)

\* Variants of the gates with a slip: no minimum number of rects, and a
\* density test that also turns away a grid exactly 75% full.
GridGatesPass_NoMinCards(rects) ==
    /\ Len(rects) >= 1
    /\ LET g == GridOf(rects)
       IN  /\ Len(g.colCenters4) >= 2
           /\ Len(g.rowCenters4) >= 2
           /\ 4 * Len(rects) >= 3 * (Len(g.colCenters4) * Len(g.rowCenters4))

GridGatesPass_StrictDensity(rects) ==
    /\ Len(rects) >= GRID_MIN_CARDS
    /\ LET g == GridOf(rects)
       IN  /\ Len(g.colCenters4) >= 2
           /\ Len(g.rowCenters4) >= 2
           /\ 4 * Len(rects) > 3 * (Len(g.colCenters4) * Len(g.rowCenters4))

\* The early returns of inferMissingGridCards: fewer than GRID_MIN_CARDS
\* rects, fewer than 2 column or row clusters, rects.length less than
\* totalCells * 0.75.
GridGatesPass(rects) ==
    /\ Len(rects) >= GRID_MIN_CARDS
    /\ LET g == GridOf(rects)
       IN  /\ Len(g.colCenters4) >= 2
           /\ Len(g.rowCenters4) >= 2
           /\ 4 * Len(rects) >= 3 * (Len(g.colCenters4) * Len(g.rowCenters4))

\* The rects inferMissingGridCards pushes after the copy of its input.
synthesized(rects) ==
    IF GridGatesPass(rects) THEN SynthFrom(rects, GridOf(rects), 0) ELSE <<>>

\* Variant with a slip: the result starts empty instead of as a copy of the
\* input (const result = []).
inferMissingGridCards_SynthOnly(rects) ==
    IF synthesized(rects) = <<>> THEN rects ELSE synthesized(rects)

inferMissingGridCards(rects) == rects \o synthesized(rects)

\* ------------------------------------------------------------ working frame
\* scale = Math.min(1, CV_MAX_DIM / Math.max(origWidth, origHeight)) as the
\* fraction ScaleNum / ScaleDen.  The images of the model have a larger
\* dimension that is at most CV_MAX_DIM, or a power-of-two multiple of it (the
\* double the program computes is then this fraction exactly), or one of
\* 1001, 1200, 1500, 3000, 5000, 12000, for which no product or quotient the
\* program rounds lies near a tie, so that the doubles round as the fraction.
ScaleNum(img) == IF Max(img.ow, img.oh) <= CV_MAX_DIM THEN 1 ELSE CV_MAX_DIM
ScaleDen(img) == IF Max(img.ow, img.oh) <= CV_MAX_DIM THEN 1 ELSE Max(img.ow, img.oh)
WorkWidth(img) == RoundDiv(img.ow * ScaleNum(img), ScaleDen(img))
WorkHeight(img) == RoundDiv(img.oh * ScaleNum(img), ScaleDen(img))

\* border = Math.max(5, Math.round(50 * scale)): the cleared margin.
Border(img) == Max(5, RoundDiv(50 * ScaleNum(img), ScaleDen(img)))

\* Variant with a slip: the size is rounded but not forced odd.
ForceOdd_Rounded(n) == n

\* n | 1 for a non-negative integer: the next odd number if n is even.
ForceOdd(n) == IF n % 2 = 0 THEN n + 1 ELSE n

\* The kernel sizes: Math.round(151 * scale) | 1, Math.round(101 * scale) | 1,
\* Math.round(31 * scale) | 1 and Math.max(3, Math.round(10 * scale)).
bgBlurSize(img) == ForceOdd(RoundDiv(151 * ScaleNum(img), ScaleDen(img)))
normKernelSize(img) == ForceOdd(RoundDiv(101 * ScaleNum(img), ScaleDen(img)))
blurSize(img) == ForceOdd(RoundDiv(31 * ScaleNum(img), ScaleDen(img)))
erodeSize(img) == Max(3, RoundDiv(10 * ScaleNum(img), ScaleDen(img)))

\* --------------------------------------------------------- region extractor
\* A contour as cv reports it: its bounding rect and twice its enclosed area
\* (cv.contourArea is a multiple of 1/2).
Contour(r, area2) == [rect |-> r, area2 |-> area2]

\* Variants of the filters with a slip: aspect bounds exclusive, and the
\* rectangularity floor of the earlier revision (0.65).
Accepted_StrictAspect(c, img) ==
    LET imgArea == WorkWidth(img) * WorkHeight(img)
    IN  /\ 1000 * c.area2 >= 2 * 5 * imgArea
        /\ 100 * c.area2 <= 2 * 8 * imgArea
        /\ 10 * c.rect.h > 9 * c.rect.w
        /\ 10 * c.rect.h < 22 * c.rect.w
        /\ 100 * c.area2 >= 2 * 25 * (c.rect.w * c.rect.h)

Accepted_Floor65(c, img) ==
    LET imgArea == WorkWidth(img) * WorkHeight(img)
    IN  /\ 1000 * c.area2 >= 2 * 5 * imgArea
        /\ 100 * c.area2 <= 2 * 8 * imgArea
        /\ 10 * c.rect.h >= 9 * c.rect.w
        /\ 10 * c.rect.h <= 22 * c.rect.w
        /\ 100 * c.area2 >= 2 * 65 * (c.rect.w * c.rect.h)

\* The three filters of the contour loop, inclusive at their bounds:
\* 0.005 <= area / imgArea <= 0.08, 0.9 <= height / width <= 2.2,
\* area / rectArea >= 0.25.
Accepted(c, img) ==
    LET imgArea == WorkWidth(img) * WorkHeight(img)
    IN  /\ 1000 * c.area2 >= 2 * 5 * imgArea
        /\ 100 * c.area2 <= 2 * 8 * imgArea
        /\ 10 * c.rect.h >= 9 * c.rect.w
        /\ 10 * c.rect.h <= 22 * c.rect.w
        /\ 100 * c.area2 >= 2 * 25 * (c.rect.w * c.rect.h)

RECURSIVE ExtractRects(_, _)
ExtractRects(contours, img) ==
    IF contours = <<>> THEN <<>>
    ELSE LET rest == ExtractRects(Tail(contours), img)
         IN  IF Accepted(Head(contours), img)
             THEN <<Head(contours).rect>> \o rest
             ELSE rest

\* ------------------------------------------------------------------ orderer
\* rowA = Math.round(a.y / (height * 0.1)).  The working heights of the model
\* are ones for which the double height * 0.1 gives the same band as the
\* exact 10 * y / height for every y.
RowBand(y, height) == RoundDiv(10 * y, height)

\* Variant with a slip: rows compared by their exact y instead of their band.
compareRects_ByY(a, b, height) ==
    IF a.y # b.y THEN a.y - b.y ELSE a.x - b.x

\* The comparator of allRects.sort: negative, zero or positive.
compareRects(a, b, height) ==
    IF RowBand(a.y, height) # RowBand(b.y, height)
    THEN RowBand(a.y, height) - RowBand(b.y, height)
    ELSE a.x - b.x

\* Array.prototype.sort is stable: an element goes after the elements that
\* do not compare greater than it.
RECURSIVE InsertRect(_, _, _)
InsertRect(v, s, height) ==
    IF s = <<>> THEN <<v>>
    ELSE IF compareRects(v, Head(s), height) < 0 THEN <<v>> \o s
    ELSE <<Head(s)>> \o InsertRect(v, Tail(s), height)

RECURSIVE SortRects(_, _)
SortRects(s, height) ==
    IF s = <<>> THEN <<>>
    ELSE InsertRect(s[Len(s)], SortRects(SubSeq(s, 1, Len(s) - 1), height), height)

\* ------------------------------------------------------------------ cropper
\* pad = Math.round(10 / scale)
Pad(img) == RoundDiv(10 * ScaleDen(img), ScaleNum(img))

\* Variant with a slip: the size is not clipped to the image.
CropRegion_NoClip(r, img) ==
    LET pad == Pad(img)
    IN  [left |-> Max(0, RoundDiv(r.x * ScaleDen(img), ScaleNum(img)) - pad),
         top |-> Max(0, RoundDiv(r.y * ScaleDen(img), ScaleNum(img)) - pad),
         width |-> RoundDiv(r.w * ScaleDen(img), ScaleNum(img)) + pad * 2,
         height |-> RoundDiv(r.h * ScaleDen(img), ScaleNum(img)) + pad * 2]

\* The region handed to sharp.extract for one rect.
CropRegion(r, img) ==
    LET pad == Pad(img)
        left == Max(0, RoundDiv(r.x * ScaleDen(img), ScaleNum(img)) - pad)
        top == Max(0, RoundDiv(r.y * ScaleDen(img), ScaleNum(img)) - pad)
    IN  [left |-> left,
         top |-> top,
         width |-> Min(RoundDiv(r.w * ScaleDen(img), ScaleNum(img)) + pad * 2,
                       img.ow - left),
         height |-> Min(RoundDiv(r.h * ScaleDen(img), ScaleNum(img)) + pad * 2,
                        img.oh - top)]

\* Variant with a slip: the loop stops one rect early.
RECURSIVE CropAll_OffByOne(_, _)
CropAll_OffByOne(sorted, img) ==
    IF Len(sorted) <= 1 THEN <<>>
    ELSE <<CropRegion(Head(sorted), img)>> \o CropAll_OffByOne(Tail(sorted), img)

\* for (const r of allRects) crops.push(extract(r))
RECURSIVE CropAll(_, _)
CropAll(sorted, img) ==
    IF sorted = <<>> THEN <<>>
    ELSE <<CropRegion(Head(sorted), img)>> \o CropAll(Tail(sorted), img)

\* sharp.extract rejects a region that is empty or leaves the image.
ExtractFails(c, img) ==
    \/ c.width < 1 \/ c.height < 1
    \/ c.left + c.width > img.ow
    \/ c.top + c.height > img.oh

\* sharp(imageBuffer).metadata() / resize fail on an image without pixels.
Degenerate(img) == img.ow < 1 \/ img.oh < 1

\* One pass of detectCardsFromBuffer over an image whose contours are
\* `contours`: the values of rects (line 213), allRects before and after the
\* sort, and crops, and whether the pass threw.
RunPass(contours, img, rotated) ==
    LET candidates == ExtractRects(contours, img)
        completed == inferMissingGridCards(candidates)
        sorted == SortRects(completed, WorkHeight(img))
        crops == CropAll(sorted, img)
    IN  [rotated |-> rotated,
         img |-> img,
         contours |-> contours,
         candidates |-> candidates,
         completed |-> completed,
         allRects |-> sorted,
         crops |-> crops,
         threw |-> \E k \in 1..Len(crops) : ExtractFails(crops[k], img)]

\* ------------------------------------------------------------------- inputs
\* What cv.findContours reports for a photograph is an input of the model: a
\* table of cards laid out on a lattice, of which up to MaxIrregular cells
\* are irregular (a card missed by the contour pass, or a card detected off
\* its cell by one of the Perturbations), or a table without cards.
MaxIrregular == 2

\* Bound on the passes the log counts (the program makes at most 2).
PassCap == 3

Layout(ww, wh, rows, cols, x0, y0, dx, dy, w, h) ==
    [ww |-> ww, wh |-> wh, rows |-> rows, cols |-> cols,
     x0 |-> x0, y0 |-> y0, dx |-> dx, dy |-> dy, w |-> w, h |-> h]

\* Lattices for a 200 x 200 frame (15 x 20 cards, 24 x 30 pitch), a
\* 240 x 200 frame and its rotation (a grid, and six cards in one column),
\* and a 1000 x 1000 working frame.
Layouts ==
    { Layout(200, 200, 2, 2, 54, 69, 24, 30, 15, 20),
      Layout(200, 200, 2, 3, 54, 69, 24, 30, 15, 20),
      Layout(200, 200, 3, 2, 54, 69, 24, 30, 15, 20),
      Layout(200, 200, 3, 3, 54, 69, 24, 30, 15, 20),
      Layout(200, 200, 3, 4, 54, 69, 24, 30, 15, 20),
      Layout(240, 200, 2, 3, 60, 60, 40, 40, 16, 22),
      Layout(200, 240, 3, 2, 60, 60, 40, 40, 16, 22),
      Layout(200, 240, 6, 1, 90, 52, 40, 23, 15, 20),
      Layout(1000, 1000, 2, 3, 270, 345, 120, 150, 75, 100) }

Pert(dx, dy, dw, dh) == [dx |-> dx, dy |-> dy, dw |-> dw, dh |-> dh]
NoPert == Pert(0, 0, 0, 0)

\* One pixel wider, one pixel lower, and displaced to the right by about
\* half a card width.
Perturbations == { Pert(0, 0, 1, 0), Pert(0, 1, 0, 0), Pert(8, 0, 0, 0) }

Cells(l) == (0..(l.rows - 1)) \X (0..(l.cols - 1))

CellRect(l, cell, p) ==
    Rect(l.x0 + cell[2] * l.dx + p.dx, l.y0 + cell[1] * l.dy + p.dy,
         l.w + p.dw, l.h + p.dh)

\* The contour of a card: a filled rectangle of w x h pixels encloses
\* (w - 1) * (h - 1).
CardContour(r) == Contour(r, 2 * (r.w - 1) * (r.h - 1))

\* The subsets of S with at most k elements.
RECURSIVE UpTo(_, _)
UpTo(S, k) ==
    IF k <= 0 THEN { {} }
    ELSE LET smaller == UpTo(S, k - 1)
         IN  smaller \cup { T \cup {e} : T \in smaller, e \in S }

\* The contours of a scene, in reverse raster order of the cells.
RECURSIVE SceneContours(_, _, _, _)
SceneContours(l, missing, pert, k) ==
    IF k < 0 THEN <<>>
    ELSE LET cell == <<k \div l.cols, k % l.cols>>
             rest == SceneContours(l, missing, pert, k - 1)
         IN  IF cell \in missing THEN rest
             ELSE <<CardContour(CellRect(l, cell,
                        IF cell \in DOMAIN pert THEN pert[cell] ELSE NoPert))>>
                  \o rest

LayoutContourLists(l) ==
    UNION { UNION { { SceneContours(l, missing, pert, l.rows * l.cols - 1) :
                        pert \in [P -> Perturbations] } :
                    P \in UpTo(Cells(l) \ missing, MaxIrregular - Cardinality(missing)) } :
            missing \in UpTo(Cells(l), MaxIrregular) }

\* A blob too large to be a card (rejected by the area filter).
Blob(ww, wh) == Contour(Rect(ww \div 4, wh \div 4, ww \div 2, wh \div 2),
                        2 * (ww \div 2 - 1) * (wh \div 2 - 1))

\* Single shapes in the 1000 x 800 working frame, at and next to the bounds
\* of the filters: bounding rects of aspect 0.89, 0.9, 1.5, 2.2 and 2.21, and
\* a large one; enclosed areas (doubled) of the full rectangle, of 1/2 and 1/4
\* of the bounding rect and just below, and of 0.005 and 0.08 of the frame and
\* just outside.  A contour encloses at most (w - 1) * (h - 1).
ProbeSizes == { <<100, 89>>, <<100, 90>>, <<100, 150>>, <<100, 220>>,
                <<100, 221>>, <<250, 400>> }

ProbeAreas2(w, h) ==
    { a \in { 2 * (w - 1) * (h - 1), w * h, (w * h) \div 2, (w * h) \div 2 - 1,
              8000, 7999, 128000, 128001 } :
        a <= 2 * (w - 1) * (h - 1) }

ProbesAt(x, y) ==
    UNION { { Contour(Rect(x, y, s[1], s[2]), a) : a \in ProbeAreas2(s[1], s[2]) } :
            s \in ProbeSizes }

\* One shape, or one shape followed by a card or by a shape that is too tall.
ProbeLists ==
    { <<c>> : c \in ProbesAt(300, 300) }
    \cup { <<c, d>> : c \in ProbesAt(300, 300),
                      d \in { Contour(Rect(600, 300, 100, 150), 2 * 99 * 149),
                              Contour(Rect(600, 300, 100, 221), 2 * 99 * 220) } }

\* A table photographed with its last column at the right margin of the
\* 1000 x 800 frame: six cards of 160 x 200 in two rows of three, and in the
\* first row a fourth shape, `wn` wide, that ends where the cleared border
\* begins; the second row has nothing in that column.
EdgeScene(wn) ==
    << CardContour(Rect(100, 100, 160, 200)), CardContour(Rect(300, 100, 160, 200)),
       CardContour(Rect(500, 100, 160, 200)), CardContour(Rect(949 - wn, 150, wn, 100)),
       CardContour(Rect(100, 400, 160, 200)), CardContour(Rect(300, 400, 160, 200)),
       CardContour(Rect(500, 400, 160, 200)) >>

EdgeLists == { EdgeScene(50), EdgeScene(100) }

\* Every contour lies inside the cleared border of the frame.
InsideBorder(contours, img) ==
    \A k \in 1..Len(contours) :
        LET r == contours[k].rect
        IN  /\ r.x > Border(img) /\ r.y > Border(img)
            /\ r.x + r.w <= WorkWidth(img) - Border(img)
            /\ r.y + r.h <= WorkHeight(img) - Border(img)

Image(ow, oh) == [ow |-> ow, oh |-> oh]

\* The contour lists cv can report for an image: those of the lattices of
\* its working frame that lie inside the border, or none at all, or a blob.
ContourLists(img) ==
    { c \in UNION { LayoutContourLists(l) :
                      l \in { m \in Layouts : m.ww = WorkWidth(img) /\ m.wh = WorkHeight(img) } } :
        InsideBorder(c, img) }
    \cup { <<>>, <<Blob(WorkWidth(img), WorkHeight(img))>> }

ContourLists200x200 == ContourLists(Image(200, 200))
ContourLists240x200 == ContourLists(Image(240, 200))
ContourLists200x240 == ContourLists(Image(200, 240))
ContourLists2000x2000 == ContourLists(Image(2000, 2000))

ContoursOf(img) ==
    IF img = Image(200, 200) THEN ContourLists200x200
    ELSE IF img = Image(240, 200) THEN ContourLists240x200
    ELSE IF img = Image(200, 240) THEN ContourLists200x240
    ELSE IF img = Image(2000, 2000) THEN ContourLists2000x2000
    ELSE IF img = Image(1000, 800) THEN ProbeLists \cup EdgeLists
    ELSE { <<>> }

\* The photographs detectCards is called with: tables of cards, single
\* shapes (1000 x 800), and one that has no pixels.
Images == { Image(200, 200), Image(240, 200), Image(2000, 2000), Image(1000, 800),
            Image(0, 0) }

\* sharp(imageBuffer).rotate(90): the dimensions swap.
Rotate90(img) == Image(img.oh, img.ow)

\* ------------------------------------------------------------ state machine
VARIABLES
    pc,        \* where detectCards is: Initial, AwaitCV, PrimaryAttempt,
               \* RotateRetry, Done, Failed
    cvReady,   \* the module-level promise: null, pending, resolved
    image,     \* the imageBuffer detectCards was called with
    contours,  \* what cv.findContours reported in the latest pass
    passLog,   \* the passes of detectCardsFromBuffer made so far
    result     \* the crops detectCards returned

\* Several calls of detectCards in flight in one process (the calls share the
\* module and take turns at their awaits).
VARIABLES
    runtime,   \* the cv runtime: loading, or up (typeof cv.Mat === "function")
    promises,  \* how many promises ensureCVReady has created
    handlers,  \* how many times cv.onRuntimeInitialized has been assigned
    run,       \* per call: where it is, its arguments, its rects and crops
    live       \* per call: the cv objects it has allocated and not deleted

callVars == <<runtime, promises, handlers, run, live>>

\* The rest of the application: the rule checker, the batch script that
\* classifies the crops of each image, and the page with its upload widget.
VARIABLES
    rule,      \* findAllSets: the card list and the sets found in it
    frame,     \* detectCardsFromBuffer: the scale context of one image
    batch,     \* analyze-two-pass: the files, the classifier calls in flight
    page,      \* SetSolverPage: imageData, isAnalyzing, result, error, and
               \* the image of the request to /api/analyze in flight
    upload     \* ImageUpload: preview, isDragging, and the files being read

appVars == <<rule, frame, batch, page, upload>>

detectVars == <<pc, cvReady, image, contours, passLog, result, callVars>>

vars == <<detectVars, appVars>>

\* Number of calls of detectCards in flight.
NumCallers == 2
Callers == 1..NumCallers

\* What a call holds before detectCards is entered.
NoInput == [img |-> Image(-1, -1), contours |-> <<>>, rotContours |-> <<>>,
            debugDir |-> "none"]
IdleRun == [pc |-> "Idle", input |-> NoInput, rot |-> FALSE, awaiting |-> 0,
            rects |-> <<>>, crops |-> <<>>]

NoImage == Image(-1, -1)

\* Nothing asked of the rule checker, no image measured, no batch started,
\* and the page as first rendered.
NoRule == [pc |-> "Collect", cards |-> <<>>, validSets |-> <<>>]
NoFrame == [pc |-> "Idle", img |-> NoImage, width |-> 0, height |-> 0,
            bgBlurSize |-> 0, normKernelSize |-> 0, blurSize |-> 0, border |-> 0,
            erodeSize |-> 0, pad |-> 0, rect |-> Rect(0, 0, 0, 0),
            crop |-> [left |-> 0, top |-> 0, width |-> 0, height |-> 0]]
NoBatch == [pc |-> "Idle", file |-> 0, crops |-> <<>>, calls |-> <<>>,
            slots |-> <<>>, answered |-> 0, order |-> <<>>, orphans |-> 0,
            written |-> <<>>, errors |-> <<>>]
NoPage == [imageData |-> "null", isAnalyzing |-> FALSE, result |-> "null",
           error |-> "null", request |-> "none"]
NoUpload == [preview |-> "null", isDragging |-> FALSE, reading |-> {}]

Init ==
    /\ pc = "Initial"
    /\ cvReady = "null"
    /\ image = NoImage
    /\ contours = <<>>
    /\ passLog = <<>>
    /\ result = <<>>
    /\ runtime = "loading"
    /\ promises = 0
    /\ handlers = 0
    /\ run = [c \in Callers |-> IdleRun]
    /\ live = [c \in Callers |-> {}]
    /\ rule = NoRule
    /\ frame = NoFrame
    /\ batch = NoBatch
    /\ page = NoPage
    /\ upload = NoUpload

\* detectCards(imageBuffer) up to its first await: ensureCVReady() creates
\* the promise on first use; it is resolved at once when the runtime is
\* already initialized (typeof cv.Mat === "function").
Call(img, runtimeUp) ==
    /\ pc = "Initial"
    /\ pc' = "AwaitCV"
    /\ image' = img
    /\ cvReady' = IF cvReady = "null"
                  THEN (IF runtimeUp THEN "resolved" ELSE "pending")
                  ELSE cvReady
    /\ UNCHANGED <<contours, passLog, result, callVars, appVars>>

\* cv.onRuntimeInitialized fires and resolves the promise.
RuntimeInitialized ==
    /\ cvReady = "pending"
    /\ cvReady' = "resolved"
    /\ UNCHANGED <<pc, image, contours, passLog, result, callVars, appVars>>

\* await ensureCVReady() resumes.
Resume ==
    /\ pc = "AwaitCV"
    /\ cvReady = "resolved"
    /\ pc' = "PrimaryAttempt"
    /\ UNCHANGED <<cvReady, image, contours, passLog, result, callVars, appVars>>

\* Variants of AfterPass with a slip: retrying for as long as a pass finds
\* nothing, never retrying, and reporting an empty retry as a failure.
AfterPass_RetryAgain(at, crops) ==
    IF Len(crops) = 0 THEN "RotateRetry" ELSE "Done"

AfterPass_NoRetry(at, crops) == "Done"

AfterPass_FailOnEmpty(at, crops) ==
    IF Len(crops) > 0 THEN "Done"
    ELSE IF at = "PrimaryAttempt" THEN "RotateRetry" ELSE "Failed"

\* Where detectCards goes after a pass that returned `crops`
\* (if (crops.length === 0) after the first pass only).
AfterPass(at, crops) ==
    IF at = "PrimaryAttempt" /\ Len(crops) = 0 THEN "RotateRetry" ELSE "Done"

\* The pass just logged either threw, or detectCards goes on with its crops.
Continue ==
    LET pass == passLog'[Len(passLog')]
    IN  IF pass.threw
        THEN pc' = "Failed" /\ UNCHANGED result
        ELSE /\ pc' = AfterPass(pc, pass.crops)
             /\ result' = IF pc' = "Done" THEN pass.crops ELSE result

\* Variant of PrimaryPass with a slip: a failure to read the image is caught
\* and taken for a pass without crops.
PrimaryPass_CatchAsEmpty ==
    /\ pc = "PrimaryAttempt"
    /\ Len(passLog) < PassCap
    /\ IF Degenerate(image)
       THEN /\ pc' = "RotateRetry"
            /\ UNCHANGED <<contours, passLog, result>>
       ELSE /\ contours' \in ContoursOf(image)
            /\ passLog' = Append(passLog, RunPass(contours', image, FALSE))
            /\ Continue
    /\ UNCHANGED <<cvReady, image, callVars, appVars>>

\* let crops = await detectCardsFromBuffer(imageBuffer): one whole pass over
\* the image as given; cv reports one of the contour lists of the image.
PrimaryPass ==
    /\ pc = "PrimaryAttempt"
    /\ Len(passLog) < PassCap
    /\ IF Degenerate(image)
       THEN /\ pc' = "Failed"
            /\ UNCHANGED <<contours, passLog, result>>
       ELSE /\ contours' \in ContoursOf(image)
            /\ passLog' = Append(passLog, RunPass(contours', image, FALSE))
            /\ Continue
    /\ UNCHANGED <<cvReady, image, callVars, appVars>>

\* rotated = sharp(imageBuffer).rotate(90); crops = await
\* detectCardsFromBuffer(rotated); return { crops, timing }
RotatePass ==
    /\ pc = "RotateRetry"
    /\ Len(passLog) < PassCap
    /\ contours' \in ContoursOf(Rotate90(image))
    /\ passLog' = Append(passLog, RunPass(contours', Rotate90(image), TRUE))
    /\ Continue
    /\ UNCHANGED <<cvReady, image, callVars, appVars>>

Next ==
    \/ \E img \in Images, up \in BOOLEAN : Call(img, up)
    \/ RuntimeInitialized
    \/ Resume
    \/ PrimaryPass
    \/ RotatePass

Spec == Init /\ [][Next]_vars

\* A pass can start: this is ENABLED <<PrimaryPass \/ RotatePass>>_vars.
PassReady == pc \in {"PrimaryAttempt", "RotateRetry"} /\ Len(passLog) < PassCap

\* A step of PrimaryPass or RotatePass, told by what it does to pc (no other
\* action is enabled where a pass is ready).
PassStep == PassReady /\ pc' # pc

\* The event loop runs every continuation that is ready: the call is made,
\* the runtime finishes initializing, the await resumes, and a pass that can
\* start is carried out.  The last conjunct is WF_vars(PrimaryPass \/
\* RotatePass) with ENABLED and the step written out as PassReady, PassStep.
FairSpec ==
    /\ Spec
    /\ WF_vars(\E img \in Images, up \in BOOLEAN : Call(img, up))
    /\ WF_vars(RuntimeInitialized)
    /\ WF_vars(Resume)
    /\ ([]<>(~PassReady) \/ []<><<PassStep>>_vars)

\* ---------------------------------------------------------- concurrent calls
\* The arguments of a call: the image, what cv.findContours reports for it
\* and for its rotation by 90 degrees (a function of the pixels), and the
\* debug directory: none, one that can be written, or one that cannot.
Input(img, cs, rotCs, debugDir) ==
    [img |-> img, contours |-> cs, rotContours |-> rotCs, debugDir |-> debugDir]

\* Four cards in a 2 x 2 grid, upright.
TableContours ==
    SceneContours(Layout(200, 200, 2, 2, 54, 69, 24, 30, 15, 20), {}, <<>>, 3)

\* Six cards photographed sideways (22 x 16 each), and the same table after
\* the rotation (16 x 22 each).
SidewaysContours ==
    SceneContours(Layout(240, 200, 2, 3, 60, 60, 40, 40, 22, 16), {}, <<>>, 5)
UprightContours ==
    SceneContours(Layout(200, 240, 3, 2, 60, 60, 40, 40, 16, 22), {}, <<>>, 5)

Inputs ==
    { Input(Image(200, 200), TableContours, <<>>, "none"),
      Input(Image(200, 200), TableContours, <<>>, "unwritable"),
      Input(Image(240, 200), SidewaysContours, UprightContours, "none"),
      Input(Image(200, 200), <<>>, <<>>, "none"),
      Input(Image(0, 0), <<>>, <<>>, "none") }

\* The cv objects a pass allocates before the debug images (lines 123-168;
\* `ones` is deleted where it is made), those it allocates for findContours
\* (lines 183-184), and those the cleanup deletes (lines 242-246).
PreparedFrames ==
    { "mat", "gray", "background", "normalized", "normKernel", "localMax",
      "scaled", "blurred", "thresh", "erodeKernel", "eroded" }
ContourFrames == { "contours", "hierarchy" }
CleanedUp ==
    { "mat", "gray", "background", "normalized", "normKernel", "localMax",
      "scaled", "blurred", "thresh", "erodeKernel", "eroded",
      "contours", "hierarchy" }

\* The image and the contours of the pass a call is in.
PassImage(r) == IF r.rot THEN Rotate90(r.input.img) ELSE r.input.img
PassContours(r) == IF r.rot THEN r.input.rotContours ELSE r.input.contours

\* Variant of Invoke with a slip: ensureCVReady without its guard
\* (if (!cvReady)), a new promise and a new handler at every call.
Invoke_NoMemo(c, in) ==
    /\ run[c].pc = "Idle"
    /\ cvReady' = IF runtime = "up" THEN "resolved" ELSE "pending"
    /\ promises' = promises + 1
    /\ handlers' = IF runtime = "up" THEN handlers ELSE handlers + 1
    /\ run' = [run EXCEPT ![c] = [@ EXCEPT !.pc = "AwaitCV", !.input = in,
                                           !.awaiting = promises']]
    /\ UNCHANGED <<runtime, live, pc, image, contours, passLog, result, appVars>>

\* detectCards(imageBuffer, debugDir) up to its first await: ensureCVReady()
\* creates the promise if there is none, resolves it at once if the runtime
\* is up and registers cv.onRuntimeInitialized otherwise, and returns the
\* module's promise.
Invoke(c, in) ==
    /\ run[c].pc = "Idle"
    /\ cvReady' = IF cvReady = "null"
                  THEN (IF runtime = "up" THEN "resolved" ELSE "pending")
                  ELSE cvReady
    /\ promises' = IF cvReady = "null" THEN promises + 1 ELSE promises
    /\ handlers' = IF cvReady = "null" /\ runtime # "up" THEN handlers + 1 ELSE handlers
    /\ run' = [run EXCEPT ![c] = [@ EXCEPT !.pc = "AwaitCV", !.input = in,
                                           !.awaiting = promises']]
    /\ UNCHANGED <<runtime, live, pc, image, contours, passLog, result, appVars>>

\* The cv runtime finishes loading: cv.Mat becomes a function and
\* cv.onRuntimeInitialized, if assigned, resolves the promise.
RuntimeUp ==
    /\ runtime = "loading"
    /\ runtime' = "up"
    /\ cvReady' = IF cvReady = "pending" THEN "resolved" ELSE cvReady
    /\ UNCHANGED <<promises, handlers, run, live, pc, image, contours, passLog, result, appVars>>

\* await ensureCVReady() resumes in call c.
Released(c) ==
    /\ run[c].pc = "AwaitCV"
    /\ cvReady = "resolved"
    /\ run' = [run EXCEPT ![c].pc = "Start"]
    /\ UNCHANGED <<cvReady, runtime, promises, handlers, live, pc, image, contours,
                   passLog, result, appVars>>

\* detectCardsFromBuffer, lines 109-169: the image is read (which fails for
\* an image without pixels) and the working frames are allocated.
Prepare(c) ==
    /\ run[c].pc = "Start"
    /\ IF Degenerate(PassImage(run[c]))
       THEN /\ run' = [run EXCEPT ![c].pc = "Failed"]
            /\ UNCHANGED live
       ELSE /\ run' = [run EXCEPT ![c].pc = "Prepared"]
            /\ live' = [live EXCEPT ![c] = @ \cup PreparedFrames]
    /\ UNCHANGED <<cvReady, runtime, promises, handlers, pc, image, contours,
                   passLog, result, appVars>>

\* Variant of Detect with a slip: rects kept in a module-level array that
\* every call in flight reads.
Detect_SharedRects(c) ==
    /\ run[c].pc = "Prepared"
    /\ IF run[c].input.debugDir = "unwritable"
       THEN /\ run' = [run EXCEPT ![c].pc = "Failed"]
            /\ UNCHANGED live
       ELSE /\ run' = [d \in Callers |->
                        [run[d] EXCEPT
                            !.pc = IF d = c THEN "Detected" ELSE @,
                            !.rects = SortRects(inferMissingGridCards(
                                          ExtractRects(PassContours(run[c]),
                                                       PassImage(run[c]))),
                                          WorkHeight(PassImage(run[c])))]]
            /\ live' = [live EXCEPT ![c] = @ \cup ContourFrames]
    /\ UNCHANGED <<cvReady, runtime, promises, handlers, pc, image, contours,
                   passLog, result, appVars>>

\* Lines 172-223: the debug images are written (mkdir and toFile reject for
\* a directory that cannot be written, and the pass throws), the contours
\* are found, filtered, completed and sorted.
Detect(c) ==
    /\ run[c].pc = "Prepared"
    /\ IF run[c].input.debugDir = "unwritable"
       THEN /\ run' = [run EXCEPT ![c].pc = "Failed"]
            /\ UNCHANGED live
       ELSE /\ run' = [run EXCEPT
                        ![c].pc = "Detected",
                        ![c].rects = SortRects(inferMissingGridCards(
                                         ExtractRects(PassContours(run[c]),
                                                      PassImage(run[c]))),
                                         WorkHeight(PassImage(run[c])))]
            /\ live' = [live EXCEPT ![c] = @ \cup ContourFrames]
    /\ UNCHANGED <<cvReady, runtime, promises, handlers, pc, image, contours,
                   passLog, result, appVars>>

\* Lines 225-248 and 263-270: the crops are extracted (a rejected extract
\* throws), the cv objects are deleted, and detectCards either retries on the
\* rotated image or returns the crops.
CropAndReturn(c) ==
    /\ run[c].pc = "Detected"
    /\ LET crops == CropAll(run[c].rects, PassImage(run[c]))
           at == IF run[c].rot THEN "RotateRetry" ELSE "PrimaryAttempt"
       IN  IF \E k \in 1..Len(crops) : ExtractFails(crops[k], PassImage(run[c]))
           THEN /\ run' = [run EXCEPT ![c].pc = "Failed"]
                /\ UNCHANGED live
           ELSE /\ live' = [live EXCEPT ![c] = @ \ CleanedUp]
                /\ IF AfterPass(at, crops) = "RotateRetry"
                   THEN run' = [run EXCEPT ![c].pc = "Start", ![c].rot = TRUE,
                                           ![c].rects = <<>>]
                   ELSE run' = [run EXCEPT ![c].pc = "Done", ![c].crops = crops]
    /\ UNCHANGED <<cvReady, runtime, promises, handlers, pc, image, contours,
                   passLog, result, appVars>>

ConcNext ==
    \/ \E c \in Callers, in \in Inputs : Invoke(c, in)
    \/ RuntimeUp
    \/ \E c \in Callers : Released(c)
    \/ \E c \in Callers : Prepare(c)
    \/ \E c \in Callers : Detect(c)
    \/ \E c \in Callers : CropAndReturn(c)

ConcSpec == Init /\ [][ConcNext]_vars

\* The event loop resumes every call whose promise is resolved, and the
\* runtime finishes loading.
FairConcSpec ==
    /\ ConcSpec
    /\ WF_vars(RuntimeUp)
    /\ \A c \in Callers : WF_vars(Released(c))

\* ------------------------------------------------------------ scale context
\* The photographs whose scale context is measured: small ones, ones at the
\* limit of CV_MAX_DIM, downscaled ones (scales 1000/1001, 5/6, 2/3, 1/2,
\* 1/3, 1/4, 1/5, 1/8, 1/12, 1/16, 1/64), and strips one or three pixels wide.
FrameImages ==
    { Image(1, 1), Image(5, 5), Image(200, 200), Image(640, 480), Image(1000, 800),
      Image(1000, 1000), Image(1001, 1001), Image(1200, 900), Image(1500, 1000),
      Image(2000, 2000), Image(2000, 1), Image(1, 2000), Image(3000, 2000),
      Image(4000, 3000), Image(3000, 4000), Image(1, 4000), Image(3, 4000),
      Image(5000, 4000), Image(8000, 6000), Image(6000, 8000), Image(12000, 9000),
      Image(16000, 16000), Image(1, 8000), Image(64000, 48000) }

\* The bounding rects of cards in the working frame of an image: a sixth of
\* the frame wide, half as tall again, at the left, middle and right and at
\* the top, middle and bottom of what the cleared border and the erosion
\* leave (the border clears columns 0..border and the erosion takes at least
\* one more pixel), and accepted by the filters.
FrameRects(img) ==
    LET W == WorkWidth(img)
        H == WorkHeight(img)
        b == Border(img)
        w == W \div 6
        h == (3 * w) \div 2
    IN  { r \in { Rect(x, y, w, h) : x \in { b + 2, (W - w) \div 2, W - b - 1 - w },
                                     y \in { b + 2, (H - h) \div 2, H - b - 1 - h } } :
            /\ r.x >= b + 2 /\ r.y >= b + 2
            /\ r.x + r.w <= W - b - 1 /\ r.y + r.h <= H - b - 1
            /\ Accepted(CardContour(r), img) }

\* detectCardsFromBuffer, lines 110-166: the scale and what is derived from
\* it.  sharp's resize rejects a working width or height of 0.
Measure(img) ==
    /\ frame.pc = "Idle"
    /\ frame' = [frame EXCEPT
                    !.pc = IF WorkWidth(img) < 1 \/ WorkHeight(img) < 1
                           THEN "Failed" ELSE "Measured",
                    !.img = img,
                    !.width = WorkWidth(img),
                    !.height = WorkHeight(img),
                    !.bgBlurSize = bgBlurSize(img),
                    !.normKernelSize = normKernelSize(img),
                    !.blurSize = blurSize(img),
                    !.border = Border(img),
                    !.erodeSize = erodeSize(img),
                    !.pad = Pad(img)]
    /\ UNCHANGED <<detectVars, rule, batch, page, upload>>

\* Lines 227-232 for one rect of the frame.
CropOne(r) ==
    /\ frame.pc = "Measured"
    /\ frame' = [frame EXCEPT !.pc = "Cropped", !.rect = r,
                              !.crop = CropRegion(r, frame.img)]
    /\ UNCHANGED <<detectVars, rule, batch, page, upload>>

FrameNext ==
    \/ \E img \in FrameImages : Measure(img)
    \/ \E r \in FrameRects(frame.img) : CropOne(r)

FrameSpec == Init /\ [][FrameNext]_vars

\* -------------------------------------------------------------- rule checker
\* lib/set-game: a card and its four attributes.
SetCard(id, color, shape, shading, number) ==
    [id |-> id, color |-> color, shape |-> shape, shading |-> shading,
     number |-> number]

\* Variant with a slip: the outer pair is not compared (a = c passes as
\* "all different").
checkAttribute_Chain(a, b, c) ==
    LET allSame == a = b /\ b = c
        allDifferent == a # b /\ b # c
    IN  allSame \/ allDifferent

checkAttribute(a, b, c) ==
    LET allSame == a = b /\ b = c
        allDifferent == a # b /\ b # c /\ a # c
    IN  allSame \/ allDifferent

isValidSet(card1, card2, card3) ==
    /\ checkAttribute(card1.color, card2.color, card3.color)
    /\ checkAttribute(card1.shape, card2.shape, card3.shape)
    /\ checkAttribute(card1.shading, card2.shading, card3.shading)
    /\ checkAttribute(card1.number, card2.number, card3.number)

\* getSetReason: per attribute, "all" (the same) or "different".
describeAttribute(a, b, c) == IF a = b /\ b = c THEN "all" ELSE "different"

getSetReason(card1, card2, card3) ==
    << describeAttribute(card1.color, card2.color, card3.color),
       describeAttribute(card1.shape, card2.shape, card3.shape),
       describeAttribute(card1.shading, card2.shading, card3.shading),
       describeAttribute(card1.number, card2.number, card3.number) >>

\* The three loops of findAllSets from (i, j, k) on, with 1-based indices:
\* i < cards.length - 2, j = i + 1 .. , k = j + 1 .. .
RECURSIVE FindSetsFrom(_, _, _, _)
FindSetsFrom(cards, i, j, k) ==
    IF i > Len(cards) - 2 THEN <<>>
    ELSE IF j > Len(cards) - 1 THEN FindSetsFrom(cards, i + 1, i + 2, i + 3)
    ELSE IF k > Len(cards) THEN FindSetsFrom(cards, i, j + 1, j + 2)
    ELSE (IF isValidSet(cards[i], cards[j], cards[k])
          THEN << [cards |-> <<cards[i], cards[j], cards[k]>>,
                   reason |-> getSetReason(cards[i], cards[j], cards[k])] >>
          ELSE <<>>)
         \o FindSetsFrom(cards, i, j, k + 1)

findAllSets(cards) == FindSetsFrom(cards, 1, 2, 3)

\* Bound on the length of the card list handed to findAllSets.
MaxCards == 4

\* The cards a list is dealt from: three that differ in every attribute,
\* cards that differ from the first in one attribute only (number, color),
\* and two that differ from it in shape and shading.
Deck ==
    { <<"red", "diamond", "solid", 1>>, <<"green", "oval", "striped", 2>>,
      <<"purple", "squiggle", "empty", 3>>, <<"red", "diamond", "solid", 2>>,
      <<"red", "diamond", "solid", 3>>, <<"green", "diamond", "solid", 1>>,
      <<"purple", "diamond", "solid", 1>>, <<"red", "oval", "empty", 1>>,
      <<"red", "squiggle", "striped", 1>> }

\* One more classified card joins the list, with the next ordinal as its id.
Deal(d) ==
    /\ rule.pc = "Collect"
    /\ Len(rule.cards) < MaxCards
    /\ rule' = [rule EXCEPT !.cards = Append(@, SetCard(Len(@) + 1, d[1], d[2], d[3], d[4]))]
    /\ UNCHANGED <<detectVars, frame, batch, page, upload>>

\* const validSets = findAllSets(cards)
FindSets ==
    /\ rule.pc = "Collect"
    /\ rule' = [rule EXCEPT !.pc = "Done", !.validSets = findAllSets(rule.cards)]
    /\ UNCHANGED <<detectVars, frame, batch, page, upload>>

RuleNext ==
    \/ \E d \in Deck : Deal(d)
    \/ FindSets

RuleSpec == Init /\ [][RuleNext]_vars

\* ------------------------------------------------------------- batch script
\* scripts/analyze-two-pass: main loops over the image files; analyzeImage
\* detects the crops of one image, classifies them concurrently (one
\* analyzeCard call per crop, gathered by Promise.all), runs findAllSets and
\* returns the result, which main writes; an error is logged and the loop
\* goes on.

\* Bounds on the files of a batch and on the crops of an image.
NumFiles == 2
MaxCrops == 3

\* What the cards on the table show: three faces that form a set, laid out
\* so that the crops of an image differ from their neighbours.
Faces ==
    << <<"red", "diamond", "solid", 1>>, <<"green", "oval", "striped", 2>>,
       <<"purple", "squiggle", "empty", 3>> >>
FaceOf(f, i) == Faces[((f + i) % 3) + 1]

\* The answer of the classifier for a crop: the attributes as strings, the
\* number among them ("1", "2", "3").
analyzeCard(face) ==
    [color |-> face[1], shape |-> face[2], shading |-> face[3],
     number |-> CASE face[4] = 1 -> "1" [] face[4] = 2 -> "2" [] OTHER -> "3"]

\* parseInt(attrs.number, 10)
parseInt(str) == CASE str = "1" -> 1 [] str = "2" -> 2 [] str = "3" -> 3 [] OTHER -> 0

\* The value of a slot of Promise.all that is not filled, and of a callback
\* that returned nothing.
NoCard == SetCard(0, "undefined", "undefined", "undefined", 0)

\* The card the callback of crops.map returns for crop i (0-based index
\* i - 1): id card-(i), the attributes of the answer.
CardOf(i, attrs) ==
    SetCard(i, attrs.color, attrs.shape, attrs.shading, parseInt(attrs.number))

\* main reaches its loop (the arguments are given and there are files).
StartBatch ==
    /\ batch.pc = "Idle"
    /\ batch' = [batch EXCEPT !.pc = "Loop", !.file = 1]
    /\ UNCHANGED <<detectVars, rule, frame, page, upload>>

\* The loop goes on to the next file, or ends after the last.
NextFile(b) ==
    [b EXCEPT !.pc = IF b.file >= NumFiles THEN "Finished" ELSE "Loop",
              !.file = b.file + 1,
              !.crops = <<>>, !.calls = <<>>, !.slots = <<>>, !.answered = 0,
              !.order = <<>>]

\* analyzeImage up to await Promise.all: detectCards returns n crops and
\* crops.map starts one call per crop; or detectCards throws, which main
\* catches and logs.
StartImage(n, throws) ==
    /\ batch.pc = "Loop"
    /\ IF throws
       THEN batch' = NextFile([batch EXCEPT
                         !.errors = Append(@, [file |-> batch.file, crop |-> 0,
                                               crops |-> 0])])
       ELSE batch' = [batch EXCEPT
                         !.pc = "Classifying",
                         !.crops = [i \in 1..n |-> FaceOf(batch.file, i)],
                         !.calls = [i \in 1..n |-> "pending"],
                         !.slots = [i \in 1..n |-> NoCard],
                         !.answered = 0,
                         !.order = <<>>]
    /\ UNCHANGED <<detectVars, rule, frame, page, upload>>

\* Variant of Classified with a slip: the callback pushes its card to a
\* shared array, so the cards are in the order of completion.
Classified_Push(i) ==
    /\ batch.pc = "Classifying"
    /\ i \in 1..Len(batch.calls)
    /\ batch.calls[i] = "pending"
    /\ batch' = [batch EXCEPT
                    !.calls[i] = "fulfilled",
                    !.slots[batch.answered + 1] = CardOf(i, analyzeCard(batch.crops[i])),
                    !.answered = @ + 1,
                    !.order = Append(@, i)]
    /\ UNCHANGED <<detectVars, rule, frame, page, upload>>

\* The classifier answers for crop i: the callback returns the card, which
\* Promise.all keeps at the index of its promise.
Classified(i) ==
    /\ batch.pc = "Classifying"
    /\ i \in 1..Len(batch.calls)
    /\ batch.calls[i] = "pending"
    /\ batch' = [batch EXCEPT
                    !.calls[i] = "fulfilled",
                    !.slots[i] = CardOf(i, analyzeCard(batch.crops[i])),
                    !.answered = @ + 1,
                    !.order = Append(@, i)]
    /\ UNCHANGED <<detectVars, rule, frame, page, upload>>

\* Variant of ClassifyFailed with a slip: the callback catches the error and
\* returns nothing.
ClassifyFailed_Swallowed(i) ==
    /\ batch.pc = "Classifying"
    /\ i \in 1..Len(batch.calls)
    /\ batch.calls[i] = "pending"
    /\ batch' = [batch EXCEPT !.calls[i] = "fulfilled", !.order = Append(@, i)]
    /\ UNCHANGED <<detectVars, rule, frame, page, upload>>

\* The classifier fails for crop i: the callback rejects, Promise.all
\* rejects with that error, analyzeImage throws it, main logs it and goes on
\* to the next file.  The calls still pending stay in flight.
ClassifyFailed(i) ==
    /\ batch.pc = "Classifying"
    /\ i \in 1..Len(batch.calls)
    /\ batch.calls[i] = "pending"
    /\ batch' = NextFile([batch EXCEPT
                    !.errors = Append(@, [file |-> batch.file, crop |-> i,
                                          crops |-> Len(batch.calls)]),
                    !.orphans = @ + Cardinality({ k \in 1..Len(batch.calls) :
                                                    k # i /\ batch.calls[k] = "pending" })])
    /\ UNCHANGED <<detectVars, rule, frame, page, upload>>

\* Promise.all is fulfilled (every call is): analyzeImage runs findAllSets
\* on the cards and returns; main writes the result.
FanIn ==
    /\ batch.pc = "Classifying"
    /\ \A i \in 1..Len(batch.calls) : batch.calls[i] = "fulfilled"
    /\ LET cards == batch.slots
           validSets == findAllSets(cards)
       IN  batch' = NextFile([batch EXCEPT
                       !.written = Append(@,
                           [file |-> batch.file,
                            crops |-> batch.crops,
                            answered |-> batch.answered,
                            order |-> batch.order,
                            cards |-> cards,
                            validSets |-> validSets,
                            totalCards |-> Len(cards),
                            totalSets |-> Len(validSets)])])
    /\ UNCHANGED <<detectVars, rule, frame, page, upload>>

\* A call of an image that has already failed completes; nobody waits for it.
StrayCompletes ==
    /\ batch.orphans > 0
    /\ batch' = [batch EXCEPT !.orphans = @ - 1]
    /\ UNCHANGED <<detectVars, rule, frame, page, upload>>

BatchNext ==
    \/ StartBatch
    \/ \E n \in 0..MaxCrops, throws \in BOOLEAN : StartImage(n, throws)
    \/ \E i \in 1..MaxCrops : Classified(i)
    \/ \E i \in 1..MaxCrops : ClassifyFailed(i)
    \/ FanIn
    \/ StrayCompletes

BatchSpec == Init /\ [][BatchNext]_vars

\* --------------------------------------------------------------------- page
\* SetSolverPage and its ImageUpload.  Each keeps its own state: the page
\* imageData, isAnalyzing, result and error, the widget preview; the widget
\* tells the page of a new image through onImageSelect.

\* The files the user has at hand: one under MAX_BYTES as a data URL and one
\* above it.
Photos == { "photo", "largePhoto" }

\* reader.result, downscaled when longer than MAX_BYTES.
DataUrl(file) == IF file = "largePhoto" THEN "largePhoto@scaled" ELSE file

\* handleDragOver and handleDragLeave of the drop zone.
DragOver ==
    /\ upload.preview = "null"
    /\ ~upload.isDragging
    /\ upload' = [upload EXCEPT !.isDragging = TRUE]
    /\ UNCHANGED <<detectVars, rule, frame, batch, page>>

DragLeave ==
    /\ upload.preview = "null"
    /\ upload.isDragging
    /\ upload' = [upload EXCEPT !.isDragging = FALSE]
    /\ UNCHANGED <<detectVars, rule, frame, batch, page>>

\* The widget renders its drop zone (no preview): the user picks an image
\* file with the input, which is disabled during an analysis
\* (handleInputChange), or drops one (handleDrop), and handleFile starts a
\* FileReader.  A file that is not an image changes nothing.
SelectFile(file, dropped) ==
    /\ upload.preview = "null"
    /\ dropped \/ ~page.isAnalyzing
    /\ upload' = [upload EXCEPT !.reading = @ \cup {file},
                                !.isDragging = IF dropped THEN FALSE ELSE @]
    /\ UNCHANGED <<detectVars, rule, frame, batch, page>>

\* reader.onloadend: setPreview(result); onImageSelect(result), which is the
\* page's handleImageSelect.
ReaderLoaded(file) ==
    /\ file \in upload.reading
    /\ upload' = [upload EXCEPT !.reading = @ \ {file}, !.preview = DataUrl(file)]
    /\ page' = [page EXCEPT !.imageData = DataUrl(file), !.result = "null",
                            !.error = "null"]
    /\ UNCHANGED <<detectVars, rule, frame, batch>>

\* The X button on the preview (disabled during an analysis): clearImage.
RemoveImage ==
    /\ upload.preview # "null"
    /\ ~page.isAnalyzing
    /\ upload' = [upload EXCEPT !.preview = "null"]
    /\ UNCHANGED <<detectVars, rule, frame, batch, page>>

\* Find Sets (rendered when imageData && !result, disabled during an
\* analysis): analyzeImage up to its await.
FindSetsClicked ==
    /\ page.imageData # "null"
    /\ page.result = "null"
    /\ ~page.isAnalyzing
    /\ page' = [page EXCEPT !.isAnalyzing = TRUE, !.error = "null",
                            !.request = page.imageData]
    /\ UNCHANGED <<detectVars, rule, frame, batch, upload>>

\* The request returns: setResult(data) or setError(message), and
\* setIsAnalyzing(false).
Responded(ok) ==
    /\ page.request # "none"
    /\ page' = [page EXCEPT
                   !.result = IF ok THEN page.request ELSE @,
                   !.error = IF ok THEN @ ELSE "failed",
                   !.isAnalyzing = FALSE,
                   !.request = "none"]
    /\ UNCHANGED <<detectVars, rule, frame, batch, upload>>

\* reset()
Reset == [page EXCEPT !.imageData = "null", !.result = "null", !.error = "null"]

\* Clear (rendered when imageData && !result && !isAnalyzing).
ClearClicked ==
    /\ page.imageData # "null"
    /\ page.result = "null"
    /\ ~page.isAnalyzing
    /\ page' = Reset
    /\ UNCHANGED <<detectVars, rule, frame, batch, upload>>

\* Analyze New Photo (rendered when there is a result).
AnalyzeNewPhotoClicked ==
    /\ page.result # "null"
    /\ page' = Reset
    /\ UNCHANGED <<detectVars, rule, frame, batch, upload>>

PageNext ==
    \/ DragOver
    \/ DragLeave
    \/ \E file \in Photos, dropped \in BOOLEAN : SelectFile(file, dropped)
    \/ \E file \in Photos : ReaderLoaded(file)
    \/ RemoveImage
    \/ FindSetsClicked
    \/ \E ok \in BOOLEAN : Responded(ok)
    \/ ClearClicked
    \/ AnalyzeNewPhotoClicked

PageSpec == Init /\ [][PageNext]_vars

\* ------------------------------------------------------------------- claims
Passes == 1..Len(passLog)
LastPass == passLog[Len(passLog)]

\* C1: detectCards runs the pipeline at most twice, first on the image as
\* given and then at most once on the rotated image; the rotated pass is
\* final: its crops, even if there are none, are returned normally and no
\* further pass follows.
C1_SingleRetry ==
    /\ Len(passLog) <= 2
    /\ \A k \in Passes : passLog[k].rotated <=> k = 2
    /\ (Len(passLog) = 2 /\ ~passLog[2].threw) =>
           /\ pc = "Done"
           /\ result = passLog[2].crops

C1_Witness ==
    /\ pc = "Done"
    /\ Len(passLog) = 2
    /\ passLog[2].rotated
    /\ passLog[2].crops = <<>>
    /\ result = <<>>

\* C2: the rotated pass runs exactly when the primary pass yielded zero
\* candidates, which is exactly when it produced zero crops; a primary pass
\* with at least one candidate returns its crops and no rotated pass runs.
C2_RetryIffNoCandidates ==
    (pc \in {"RotateRetry", "Done"}) =>
        LET first == passLog[1]
            retried == pc = "RotateRetry" \/ Len(passLog) = 2
        IN  /\ retried <=> Len(first.candidates) = 0
            /\ Len(first.candidates) = 0 <=> Len(first.crops) = 0
            /\ Len(first.candidates) >= 1 =>
                   /\ pc = "Done"
                   /\ Len(passLog) = 1
                   /\ result = first.crops

C2_Witness ==
    /\ pc = "Done"
    /\ Len(passLog) = 1
    /\ Len(passLog[1].candidates) >= 1
    /\ result = passLog[1].crops
    /\ result # <<>>

BandOf(y, workingHeight) == (20 * y + workingHeight) \div (2 * workingHeight)

\* C4: for any two crops of a pass with ordinals i < j, the row band of crop
\* i's source rect is below that of crop j's, or the bands are equal and crop
\* i's source rect has x <= crop j's.
C4_Ordering ==
    \A p \in Passes :
        LET pass == passLog[p]
            wh == WorkHeight(pass.img)
        IN  \A i, j \in 1..Len(pass.crops) :
                i < j =>
                    LET a == pass.allRects[i]
                        b == pass.allRects[j]
                    IN  \/ BandOf(a.y, wh) < BandOf(b.y, wh)
                        \/ BandOf(a.y, wh) = BandOf(b.y, wh) /\ a.x <= b.x

\* A pass whose sort moved rects, with two crops in one band and two in
\* different bands.
C4_Witness ==
    /\ pc = "Done"
    /\ LastPass.allRects # LastPass.completed
    /\ Len(result) >= 6
    /\ \E i, j \in 1..Len(result) :
           /\ i < j
           /\ BandOf(LastPass.allRects[i].y, WorkHeight(LastPass.img))
                  = BandOf(LastPass.allRects[j].y, WorkHeight(LastPass.img))
           /\ LastPass.allRects[i].x < LastPass.allRects[j].x
    /\ \E i, j \in 1..Len(result) :
           BandOf(LastPass.allRects[i].y, WorkHeight(LastPass.img))
               < BandOf(LastPass.allRects[j].y, WorkHeight(LastPass.img))

\* How often rect r occurs in the sequence s.
Count(r, s) == Cardinality({ k \in 1..Len(s) : s[k] = r })

\* C5: within a pass there is exactly one crop per rect of the completed
\* list: the counts are equal, the sorted list is a rearrangement of the
\* completed list, and crop k is the crop of the k-th sorted rect.
C5_OneCropPerRect ==
    \A p \in Passes :
        LET pass == passLog[p]
        IN  /\ Len(pass.crops) = Len(pass.completed)
            /\ Len(pass.allRects) = Len(pass.completed)
            /\ \A k \in 1..Len(pass.completed) :
                   Count(pass.completed[k], pass.allRects)
                       = Count(pass.completed[k], pass.completed)
            /\ \A k \in 1..Len(pass.allRects) :
                   /\ k <= Len(pass.crops)
                   /\ pass.crops[k] = CropRegion(pass.allRects[k], pass.img)

C5_Witness ==
    /\ pc = "Done"
    /\ ~LastPass.rotated
    /\ Len(LastPass.completed) > Len(LastPass.candidates)
    /\ Len(result) = Len(LastPass.completed)
    /\ \A k \in 1..Len(result) : result[k] = CropRegion(LastPass.allRects[k], image)

\* C6: the grid completer's output holds every input candidate unchanged
\* (the input is its prefix) and is at least as long: it only adds rects.
C6_Monotone ==
    \A p \in Passes :
        LET pass == passLog[p]
        IN  /\ Len(pass.completed) >= Len(pass.candidates)
            /\ \A k \in 1..Len(pass.candidates) :
                   /\ k <= Len(pass.completed)
                   /\ pass.completed[k] = pass.candidates[k]

C6_Witness ==
    /\ Len(passLog) = 2
    /\ Len(passLog[2].candidates) >= GRID_MIN_CARDS
    /\ Len(passLog[2].completed) > Len(passLog[2].candidates)
    /\ SubSeq(passLog[2].completed, 1, Len(passLog[2].candidates)) = passLog[2].candidates

\* Candidate r's center lies inside the tolerance window (half the median
\* width and height, in quarter pixels) around the point (x4, y4).
InWindow(r, x4, y4, g) ==
    /\ 2 * Abs(CenterX4(r) - x4) < g.medW4
    /\ 2 * Abs(CenterY4(r) - y4) < g.medH4

\* C7: no synthesized rect overlaps a candidate's alignment tolerance window:
\* no candidate's center is within 0.5 x medianWidth and 0.5 x medianHeight
\* of the center of a synthesized rect as it is output (origin rounded and
\* clipped).
C7_SynthOutsideWindows ==
    \A p \in Passes :
        LET pass == passLog[p]
            n == Len(pass.candidates)
        IN  \A k \in (n + 1)..Len(pass.completed) :
                \A i \in 1..n :
                    ~InWindow(pass.candidates[i],
                              CenterX4(pass.completed[k]),
                              CenterY4(pass.completed[k]),
                              GridOf(pass.candidates))

\* The candidates are exactly the cells of lattice l except `cell`.
AllButOne(candidates, l, cell) ==
    /\ Len(candidates) = l.rows * l.cols - 1
    /\ { candidates[k] : k \in 1..Len(candidates) }
           = { CellRect(l, c, NoPert) : c \in Cells(l) \ {cell} }

\* C8: when the candidates occupy all but one cell of a regular grid that
\* passes the gates (at least GRID_MIN_CARDS candidates, at least 2 rows and
\* 2 columns, at least 75% of the cells), the grid completer adds exactly one
\* rect, centered at the missing row/column intersection, as wide and high as
\* the medians, and the pass yields one crop per cell.
C8_FillsTheMissingCell ==
    \A p \in Passes :
        \A l \in Layouts :
            \A cell \in Cells(l) :
                LET pass == passLog[p]
                    n == Len(pass.candidates)
                IN  ( /\ AllButOne(pass.candidates, l, cell)
                      /\ n >= GRID_MIN_CARDS
                      /\ l.rows >= 2 /\ l.cols >= 2
                      /\ 4 * n >= 3 * (l.rows * l.cols) )
                    => LET g == GridOf(pass.candidates)
                           s == pass.completed[Len(pass.completed)]
                       IN  /\ Len(pass.completed) = n + 1
                           /\ Len(g.rowCenters4) = l.rows
                           /\ Len(g.colCenters4) = l.cols
                           /\ CenterX4(s) = g.colCenters4[cell[2] + 1]
                           /\ CenterY4(s) = g.rowCenters4[cell[1] + 1]
                           /\ CenterX4(s) = CenterX4(CellRect(l, cell, NoPert))
                           /\ CenterY4(s) = CenterY4(CellRect(l, cell, NoPert))
                           /\ 4 * s.w = g.medW4
                           /\ 4 * s.h = g.medH4
                           /\ Len(pass.crops) = l.rows * l.cols

C8_Witness ==
    /\ pc = "Done"
    /\ Len(LastPass.candidates) = 11
    /\ \E l \in Layouts :
           /\ l.rows = 3 /\ l.cols = 4
           /\ \E cell \in Cells(l) : AllButOne(LastPass.candidates, l, cell)
    /\ Len(LastPass.completed) = 12
    /\ Len(result) = 12

\* Every row/column intersection of the grid measured on the candidates has
\* a candidate whose center lies within tolerance.
EveryCellCovered(candidates) ==
    LET g == GridOf(candidates)
    IN  \A a \in 1..Len(g.rowCenters4) :
            \A b \in 1..Len(g.colCenters4) :
                \E i \in 1..Len(candidates) :
                    InWindow(candidates[i], g.colCenters4[b], g.rowCenters4[a], g)

\* C9: when every row/column intersection already has a candidate within
\* tolerance, the grid completer adds nothing: its output equals its input
\* and the pass yields exactly as many crops as candidates.
C9_CompleteGridUnchanged ==
    \A p \in Passes :
        LET pass == passLog[p]
        IN  (pass.candidates # <<>> /\ EveryCellCovered(pass.candidates))
            => /\ pass.completed = pass.candidates
               /\ Len(pass.crops) = Len(pass.candidates)

C9_Witness ==
    /\ pc = "Done"
    /\ Len(LastPass.candidates) = 12
    /\ GridGatesPass(LastPass.candidates)
    /\ EveryCellCovered(LastPass.candidates)
    /\ LastPass.completed = LastPass.candidates
    /\ Len(result) = 12

\* How far, in pixels, a card may sit below its row and still count as laid
\* out in that row of the grid.
RowSkew == 1

\* The cell of lattice l in which rect r lies (its row possibly skewed).
InCell(r, l, cell) ==
    /\ r.x = l.x0 + cell[2] * l.dx
    /\ Abs(r.y - (l.y0 + cell[1] * l.dy)) <= RowSkew

\* The rects are laid out in the rows x columns grid l, one per cell.
LaidOutOn(rects, l) ==
    /\ Len(rects) = l.rows * l.cols
    /\ \A cell \in Cells(l) : \E k \in 1..Len(rects) : InCell(rects[k], l, cell)

\* C10: rects laid out in a regular rows x columns grid, rows possibly not
\* perfectly aligned, are output in row-major order: every rect of a grid row
\* before every rect of the next row, and left to right within a row.
C10_RowMajor ==
    \A p \in Passes :
        \A l \in Layouts :
            LET pass == passLog[p]
            IN  LaidOutOn(pass.allRects, l) =>
                    \A i, j \in 1..Len(pass.allRects) :
                        \A ci, cj \in Cells(l) :
                            ( /\ i < j
                              /\ InCell(pass.allRects[i], l, ci)
                              /\ InCell(pass.allRects[j], l, cj) )
                            => \/ ci[1] < cj[1]
                               \/ ci[1] = cj[1] /\ ci[2] < cj[2]

\* The numbers of column and row clusters of a non-empty candidate list
\* (clusterValues over the centers with thresholds medW * 0.5, medH * 0.5).
NumColumns(candidates) == Len(GridOf(candidates).colCenters4)
NumRows(candidates) == Len(GridOf(candidates).rowCenters4)

\* C11: the grid completer passes the candidates through unchanged whenever
\* there are fewer than GRID_MIN_CARDS = 6 of them, or their centers form
\* fewer than 2 column clusters or fewer than 2 row clusters.
C11_GatedPassThrough ==
    \A p \in Passes :
        LET pass == passLog[p]
            n == Len(pass.candidates)
            g == GridOf(pass.candidates)
            columns == Len(g.colCenters4)
            rows == Len(g.rowCenters4)
        IN  ( \/ n < 6
              \/ n >= 1 /\ columns < 2
              \/ n >= 1 /\ rows < 2 )
            => pass.completed = pass.candidates

\* Six candidates in one column (one column cluster) are passed through.
C11_Witness ==
    /\ pc = "Done"
    /\ Len(LastPass.candidates) = 6
    /\ NumColumns(LastPass.candidates) = 1
    /\ NumRows(LastPass.candidates) = 6
    /\ LastPass.completed = LastPass.candidates
    /\ Len(result) = 6

\* The row/column intersections of the measured grid that have no candidate
\* within tolerance.
EmptyCells(candidates) ==
    LET g == GridOf(candidates)
    IN  { cell \in (1..Len(g.rowCenters4)) \X (1..Len(g.colCenters4)) :
            ~\E i \in 1..Len(candidates) :
                InWindow(candidates[i], g.colCenters4[cell[2]], g.rowCenters4[cell[1]], g) }

\* C12: density gate.  With totalCells = columns x rows of the measured grid
\* (and the earlier gates passed), the grid completer passes the candidates
\* through unchanged when their number is below 0.75 x totalCells, and goes
\* on to grid inference (one rect per empty intersection) when it is at
\* least 0.75 x totalCells; exactly 75%, 9 of 12, is not gated out.
C12_DensityGate ==
    \A p \in Passes :
        LET pass == passLog[p]
            n == Len(pass.candidates)
            g == GridOf(pass.candidates)
            columns == Len(g.colCenters4)
            rows == Len(g.rowCenters4)
            totalCells == columns * rows
        IN  (n >= 6 /\ columns >= 2 /\ rows >= 2)
            => /\ 4 * n < 3 * totalCells => pass.completed = pass.candidates
               /\ 4 * n >= 3 * totalCells =>
                      Len(pass.completed) = n + Cardinality(EmptyCells(pass.candidates))

\* Nine candidates on a grid of 12 intersections: inference adds rects.
C12_Witness ==
    /\ pc = "Done"
    /\ Len(LastPass.candidates) = 9
    /\ NumColumns(LastPass.candidates) * NumRows(LastPass.candidates) = 12
    /\ EmptyCells(LastPass.candidates) # {}
    /\ Len(LastPass.completed) = 9 + Cardinality(EmptyCells(LastPass.candidates))
    /\ Len(result) = Len(LastPass.completed)

\* The rects of a sequence of rects, as a set.
RectsOf(rects) == { rects[k] : k \in 1..Len(rects) }

\* 0.005 <= area / imgArea <= 0.08 and area / rectArea >= 0.25 for a contour
\* in a working frame of imgArea pixels (area2 is twice the area).
AreaAndRectangularityOk(c, imgArea) ==
    /\ 1000 * c.area2 >= 10 * imgArea
    /\ 100 * c.area2 <= 16 * imgArea
    /\ 4 * c.area2 >= 2 * (c.rect.w * c.rect.h)

\* C13: the aspect bounds are inclusive: a contour that passes the area and
\* rectangularity filters and whose aspect height / width is exactly 0.9 or
\* exactly 2.2 is accepted; one with aspect 0.89 or 2.21 is rejected; in
\* general it is accepted exactly when 0.9 <= aspect <= 2.2.
C13_AspectInclusive ==
    \A p \in Passes :
        LET pass == passLog[p]
            imgArea == WorkWidth(pass.img) * WorkHeight(pass.img)
        IN  \A k \in 1..Len(pass.contours) :
                LET c == pass.contours[k]
                    r == c.rect
                IN  AreaAndRectangularityOk(c, imgArea) =>
                        /\ (10 * r.h = 9 * r.w \/ 10 * r.h = 22 * r.w)
                               => r \in RectsOf(pass.candidates)
                        /\ (100 * r.h = 89 * r.w \/ 100 * r.h = 221 * r.w)
                               => r \notin RectsOf(pass.candidates)
                        /\ r \in RectsOf(pass.candidates)
                               <=> (10 * r.h >= 9 * r.w /\ 10 * r.h <= 22 * r.w)

\* A pass over a shape of aspect exactly 0.9 (accepted) followed by one of
\* aspect 2.21 (rejected).
C13_Witness ==
    /\ pc = "Done"
    /\ Len(LastPass.contours) = 2
    /\ 10 * LastPass.contours[1].rect.h = 9 * LastPass.contours[1].rect.w
    /\ 100 * LastPass.contours[2].rect.h = 221 * LastPass.contours[2].rect.w
    /\ LastPass.candidates = <<LastPass.contours[1].rect>>
    /\ Len(result) = 1

\* The contours of a list that meet all three filters, in order.
RECURSIVE MeetingFilters(_, _)
MeetingFilters(cs, imgArea) ==
    IF cs = <<>> THEN <<>>
    ELSE LET c == Head(cs)
         IN  (IF /\ AreaAndRectangularityOk(c, imgArea)
                 /\ 10 * c.rect.h >= 9 * c.rect.w
                 /\ 10 * c.rect.h <= 22 * c.rect.w
              THEN <<c.rect>> ELSE <<>>)
             \o MeetingFilters(Tail(cs), imgArea)

\* C14: the region extractor accepts a contour's bounding rect if and only if
\* 0.005 <= areaRatio <= 0.08, 0.9 <= aspect <= 2.2 and rectangularity >=
\* 0.25 (so a rectangularity between 0.25 and 0.65 is accepted); the
\* candidate list is exactly the bounding rects of the accepted contours.
C14_ThreeFilters ==
    \A p \in Passes :
        LET pass == passLog[p]
        IN  pass.candidates
                = MeetingFilters(pass.contours, WorkWidth(pass.img) * WorkHeight(pass.img))

\* A shape of rectangularity exactly 1/2 is accepted; the shape after it,
\* which is too tall, is not.
C14_Witness ==
    /\ pc = "Done"
    /\ Len(LastPass.contours) = 2
    /\ LastPass.contours[1].area2 = LastPass.contours[1].rect.w * LastPass.contours[1].rect.h
    /\ LastPass.candidates = <<LastPass.contours[1].rect>>
    /\ Len(result) = 1

\* What one call alone yields for an input: the pass whose crops are
\* returned (the primary pass, or the rotated pass after an empty one).
Alone(in) ==
    LET first == RunPass(in.contours, in.img, FALSE)
    IN  IF first.crops = <<>>
        THEN RunPass(in.rotContours, Rotate90(in.img), TRUE)
        ELSE first

\* C15: determinism.  Two runs on the same input yield the same rects in the
\* same order and the same crops, whatever other runs came before or are in
\* flight: each returned result is the one the pipeline yields for that input
\* alone (nothing but the one-time initialization is carried between calls).
C15_Deterministic ==
    /\ \A c \in Callers :
           run[c].pc = "Done" =>
               /\ run[c].rects = Alone(run[c].input).allRects
               /\ run[c].crops = Alone(run[c].input).crops
    /\ \A c, d \in Callers :
           ( /\ run[c].pc = "Done" /\ run[d].pc = "Done"
             /\ run[c].input.img = run[d].input.img
             /\ run[c].input.contours = run[d].input.contours
             /\ run[c].input.rotContours = run[d].input.rotContours )
           => /\ run[c].rects = run[d].rects
              /\ run[c].crops = run[d].crops

\* Two calls on the same sideways photograph, both returned after the retry.
C15_Witness ==
    /\ run[1].pc = "Done" /\ run[2].pc = "Done"
    /\ run[1].input = run[2].input
    /\ run[1].rot /\ run[2].rot
    /\ Len(run[1].crops) = 6
    /\ run[1].crops = run[2].crops

\* C16: init-once.  Under any interleaving of calls the initialization is set
\* up at most once (one promise, one onRuntimeInitialized registration),
\* every waiting call waits on that one promise, no pass starts before the
\* runtime is up and the promise resolved, and once the runtime is up every
\* waiting call is eventually released.
C16_InitOnce ==
    /\ [](promises <= 1 /\ handlers <= 1)
    /\ [](\A c \in Callers : run[c].pc # "Idle" => run[c].awaiting = 1)
    /\ [](\A c \in Callers :
              run[c].pc \notin {"Idle", "AwaitCV"} =>
                  runtime = "up" /\ cvReady = "resolved")
    /\ \A c \in Callers :
           (run[c].pc = "AwaitCV" /\ runtime = "up") ~> (run[c].pc # "AwaitCV")

\* Both calls were made while the runtime was loading, were released by the
\* one handler, and one of them has finished a pass.
C16_Witness ==
    /\ promises = 1 /\ handlers = 1
    /\ runtime = "up" /\ cvReady = "resolved"
    /\ run[1].awaiting = 1 /\ run[2].awaiting = 1
    /\ run[1].pc = "Done"
    /\ run[2].pc = "Prepared"

\* C17: an image without pixels (or an unreadable buffer) is fatal for the
\* run: the failure raised in the primary pass leaves detectCards as a
\* failure; no rotation retry is made and no crop list, empty or not, is
\* returned.
C17_DegenerateIsFatal ==
    /\ []((image # NoImage /\ Degenerate(image)) =>
              /\ pc \in {"AwaitCV", "PrimaryAttempt", "Failed"}
              /\ passLog = <<>>
              /\ result = <<>>)
    /\ [][(pc = "PrimaryAttempt" /\ Degenerate(image)) => pc' = "Failed"]_vars

C17_Witness ==
    /\ pc = "Failed"
    /\ image = Image(0, 0)
    /\ cvReady = "resolved"
    /\ passLog = <<>>
    /\ result = <<>>

\* C18: every rect handed to the orderer and cropper, contour-derived or
\* synthesized, has x >= 0, y >= 0, x + width <= workingWidth and
\* y + height <= workingHeight.
C18_RectsInsideFrame ==
    \A p \in Passes :
        LET pass == passLog[p]
        IN  \A k \in 1..Len(pass.completed) :
                LET r == pass.completed[k]
                IN  /\ r.x >= 0
                    /\ r.y >= 0
                    /\ r.x + r.w <= WorkWidth(pass.img)
                    /\ r.y + r.h <= WorkHeight(pass.img)

\* C19: every crop region is clipped to the image and is not empty: left >=
\* 0, top >= 0, cropWidth >= 1, cropHeight >= 1, left + cropWidth <=
\* origWidth and top + cropHeight <= origHeight, for contour-derived and
\* synthesized rects and for every working scale.
C19_CropsInsideImage ==
    \A p \in Passes :
        LET pass == passLog[p]
        IN  \A k \in 1..Len(pass.crops) :
                LET c == pass.crops[k]
                IN  /\ c.left >= 0
                    /\ c.top >= 0
                    /\ c.width >= 1
                    /\ c.height >= 1
                    /\ c.left + c.width <= pass.img.ow
                    /\ c.top + c.height <= pass.img.oh

\* A pass with a synthesized rect whose crop was cut at the right edge of
\* the image.
C19_Witness ==
    /\ pc = "Done"
    /\ Len(LastPass.completed) > Len(LastPass.candidates)
    /\ \E k \in 1..Len(result) :
           /\ result[k].left + result[k].width = image.ow
           /\ result[k].width < LastPass.allRects[k].w + 2 * Pad(image)
    /\ ~LastPass.threw

\* C20: every cv object (working frame, kernel, contour container) a pass
\* allocates is released by the time the pass ends, on every exit path:
\* normal return, return without candidates, and a failure raised midway.
C20_FramesReleased ==
    \A c \in Callers :
        run[c].pc \in {"Idle", "AwaitCV", "Start", "Done", "Failed"} => live[c] = {}

\* The rule of the game, stated on its own: on every attribute the three
\* cards show one value or three.
RuleHolds(a, b, c) ==
    /\ Cardinality({a.color, b.color, c.color}) \in {1, 3}
    /\ Cardinality({a.shape, b.shape, c.shape}) \in {1, 3}
    /\ Cardinality({a.shading, b.shading, c.shading}) \in {1, 3}
    /\ Cardinality({a.number, b.number, c.number}) \in {1, 3}

\* The index triples i < j < k of a card list that satisfy the rule.
RuleTriples(cards) ==
    { t \in (1..Len(cards)) \X (1..Len(cards)) \X (1..Len(cards)) :
        /\ t[1] < t[2] /\ t[2] < t[3]
        /\ RuleHolds(cards[t[1]], cards[t[2]], cards[t[3]]) }

\* C21: findAllSets returns exactly the 3-subsets {i < j < k} of the card
\* list in which every attribute is all identical or pairwise distinct: each
\* such triple exactly once, no triple that violates the rule, and no card
\* twice within a triple.
C21_ExactlyTheValidTriples ==
    rule.pc = "Done" =>
        LET cards == rule.cards
            found == rule.validSets
        IN  /\ Len(found) = Cardinality(RuleTriples(cards))
            /\ \A t \in RuleTriples(cards) :
                   Cardinality({ m \in 1..Len(found) :
                       found[m].cards = <<cards[t[1]], cards[t[2]], cards[t[3]]>> }) = 1
            /\ \A m \in 1..Len(found) :
                   LET s == found[m].cards
                   IN  /\ s[1].id < s[2].id /\ s[2].id < s[3].id
                       /\ <<s[1].id, s[2].id, s[3].id>> \in RuleTriples(cards)
                       /\ s = <<cards[s[1].id], cards[s[2].id], cards[s[3].id]>>

\* Four cards of which two triples are sets and two are not.
C21_Witness ==
    /\ rule.pc = "Done"
    /\ Len(rule.cards) = 4
    /\ Len(rule.validSets) = 2

\* The clusters laid end to end, and the index of the cluster that holds
\* position p of that sequence.
RECURSIVE Flatten(_)
Flatten(clusters) ==
    IF clusters = <<>> THEN <<>> ELSE Head(clusters) \o Flatten(Tail(clusters))

RECURSIVE ClusterAt(_, _)
ClusterAt(clusters, p) ==
    IF p <= Len(Head(clusters)) THEN 1
    ELSE 1 + ClusterAt(Tail(clusters), p - Len(Head(clusters)))

\* `clusters` is the single-linkage clustering of `values` with `threshold`:
\* every value is in exactly one cluster, the clusters and their members
\* ascend, and two neighbours in sorted order share a cluster exactly when
\* they differ by at most the threshold.
SingleLinkage(clusters, values, threshold) ==
    LET flat == Flatten(clusters)
    IN  /\ Len(flat) = Len(values)
        /\ \A k \in 1..Len(values) : Count(values[k], flat) = Count(values[k], values)
        /\ \A c \in 1..Len(clusters) : clusters[c] # <<>>
        /\ \A p \in 1..(Len(flat) - 1) :
               /\ flat[p] <= flat[p + 1]
               /\ (ClusterAt(clusters, p) = ClusterAt(clusters, p + 1))
                      <=> (flat[p + 1] - flat[p] <= threshold)

\* C22: clusterValues is single-linkage clustering on the sorted axis, with
\* threshold 0.5 x medianWidth for the column centers and 0.5 x medianHeight
\* for the row centers: neighbours in sorted order share a cluster iff they
\* differ by at most the threshold, every value lands in exactly one cluster
\* and the clusters ascend.
C22_SingleLinkage ==
    \A p \in Passes :
        LET rects == passLog[p].candidates
            n == Len(rects)
        IN  n >= GRID_MIN_CARDS =>
                LET xCenters4 == [i \in 1..n |-> CenterX4(rects[i])]
                    yCenters4 == [i \in 1..n |-> CenterY4(rects[i])]
                    halfW4 == median([i \in 1..n |-> Width4(rects[i])]) \div 2
                    halfH4 == median([i \in 1..n |-> Height4(rects[i])]) \div 2
                IN  /\ SingleLinkage(clusterValues(xCenters4, halfW4), xCenters4, halfW4)
                    /\ SingleLinkage(clusterValues(yCenters4, halfH4), yCenters4, halfH4)

\* Two column centers exactly half a median width apart share a cluster, and
\* two further apart do not.
C22_Witness ==
    /\ passLog # <<>>
    /\ LET rects == LastPass.candidates
           n == Len(rects)
       IN  /\ n >= GRID_MIN_CARDS
           /\ LET xCenters4 == [i \in 1..n |-> CenterX4(rects[i])]
                  halfW4 == median([i \in 1..n |-> Width4(rects[i])]) \div 2
                  clusters == clusterValues(xCenters4, halfW4)
              IN  /\ Len(clusters) >= 2
                  /\ \E c \in 1..Len(clusters) : \E k \in 1..(Len(clusters[c]) - 1) :
                         clusters[c][k + 1] - clusters[c][k] = halfW4

\* C29: grid inference only fills missing cells: where the grid completer
\* runs (its gates pass), the completed list never has more rects than the
\* grid has cells, numColumns x numRows; that is, at most
\* totalCells - candidateCount rects are synthesized.
C29_AtMostTheGridCells ==
    \A p \in Passes :
        LET pass == passLog[p]
        IN  GridGatesPass(pass.candidates) =>
                LET g == GridOf(pass.candidates)
                IN  Len(pass.completed) <= Len(g.colCenters4) * Len(g.rowCenters4)

\* The image of the frame has pixels.
FrameMeasured == frame.pc # "Idle" /\ frame.img.ow >= 1 /\ frame.img.oh >= 1

\* Where the rect of the frame lies at full resolution (its coordinates
\* divided by the working scale), padded on all four sides and intersected
\* with the image.
ReferenceCrop ==
    LET img == frame.img
        fx == RoundDiv(frame.rect.x * ScaleDen(img), ScaleNum(img))
        fy == RoundDiv(frame.rect.y * ScaleDen(img), ScaleNum(img))
        fw == RoundDiv(frame.rect.w * ScaleDen(img), ScaleNum(img))
        fh == RoundDiv(frame.rect.h * ScaleDen(img), ScaleNum(img))
    IN  [left |-> Max(0, fx - frame.pad),
         top |-> Max(0, fy - frame.pad),
         right |-> Min(img.ow, fx + fw + frame.pad),
         bottom |-> Min(img.oh, fy + fh + frame.pad)]

\* C23: the crop region of every rect is the rect at full resolution,
\* expanded by the padding on all four sides and then intersected with the
\* image; where the left or top edge is clipped at 0, the right or bottom
\* edge of the crop does not go beyond that of the padded rect.
C23_CropIsPaddedRectInImage ==
    frame.pc = "Cropped" =>
        /\ frame.crop.left = ReferenceCrop.left
        /\ frame.crop.top = ReferenceCrop.top
        /\ frame.crop.left + frame.crop.width = ReferenceCrop.right
        /\ frame.crop.top + frame.crop.height = ReferenceCrop.bottom

\* C24: the crop padding is 10 pixels at full resolution on each side,
\* whatever the working scale.
C24_PaddingIsTenPixels ==
    FrameMeasured => frame.pad = 10

\* C25: for an image of at least 1 x 1 pixels the working scale is at most 1,
\* the working width and height lie between 1 and min(1000, origDim), and an
\* image whose larger dimension is at most 1000 keeps its size.
C25_WorkingFrameInRange ==
    FrameMeasured =>
        /\ ScaleNum(frame.img) <= ScaleDen(frame.img)
        /\ frame.width >= 1 /\ frame.width <= Min(1000, frame.img.ow)
        /\ frame.height >= 1 /\ frame.height <= Min(1000, frame.img.oh)
        /\ (Max(frame.img.ow, frame.img.oh) <= 1000
               => frame.width = frame.img.ow /\ frame.height = frame.img.oh)

\* C26: at every working scale in (0, 1] the three kernel sizes are odd and
\* positive, the border margin is at least 5 and the erosion element at
\* least 3.
C26_SizesWellFormed ==
    FrameMeasured =>
        /\ frame.bgBlurSize >= 1 /\ frame.bgBlurSize % 2 = 1
        /\ frame.normKernelSize >= 1 /\ frame.normKernelSize % 2 = 1
        /\ frame.blurSize >= 1 /\ frame.blurSize % 2 = 1
        /\ frame.border >= 5
        /\ frame.erodeSize >= 3

\* A frame scaled down so far that 31 * scale rounds to 0 and 50 * scale and
\* 10 * scale round below their floors, and one whose rounded background
\* kernel (151 / 2 rounds to 76) is even.
C26_Witness ==
    /\ FrameMeasured
    /\ \/ /\ RoundDiv(31 * ScaleNum(frame.img), ScaleDen(frame.img)) = 0
          /\ frame.blurSize = 1 /\ frame.border = 5 /\ frame.erodeSize = 3
       \/ /\ RoundDiv(151 * ScaleNum(frame.img), ScaleDen(frame.img)) = 76
          /\ frame.bgBlurSize = 77

\* The results main has written and the errors it has logged.
Written == { batch.written[k] : k \in 1..Len(batch.written) }
Logged == { batch.errors[k] : k \in 1..Len(batch.errors) }

\* C27: whatever the order in which the classifier calls of an image
\* complete, the card list has the length of the crop list, the card at
\* position i (0-based) has id card-(i+1) and carries the classification of
\* crop i, and the rule check runs only after every classification has
\* completed.
C27_FanInKeepsOrdinals ==
    \A w \in Written :
        /\ Len(w.cards) = Len(w.crops)
        /\ \A i \in 1..Len(w.crops) :
               /\ w.cards[i].id = i
               /\ <<w.cards[i].color, w.cards[i].shape, w.cards[i].shading,
                    w.cards[i].number>> = w.crops[i]
        /\ w.answered = Len(w.crops)
        /\ w.validSets = findAllSets(w.cards)

\* Three crops whose classifications completed last to first.
C27_Witness ==
    \E w \in Written : Len(w.crops) = 3 /\ w.order = <<3, 2, 1>>

\* C28: a classifier failure for a crop is propagated: analyzeImage fails
\* with the error of a crop of that image, nothing is written for the image,
\* and the loop goes on to the next file; a result is written only when
\* every crop was classified, with totalCards the crop count and totalSets
\* the number of valid sets.
C28_FailurePropagates ==
    /\ \A w \in Written :
           /\ w.answered = Len(w.crops)
           /\ \A i \in 1..Len(w.cards) : w.cards[i] # NoCard
           /\ w.totalCards = Len(w.crops)
           /\ w.totalSets = Cardinality(RuleTriples(w.cards))
    /\ \A e \in Logged :
           /\ e.crop \in 0..e.crops
           /\ \A w \in Written : w.file # e.file
    /\ batch.pc # "Idle" =>
           /\ Len(batch.written) + Len(batch.errors) = batch.file - 1
           /\ { w.file : w \in Written } \cup { e.file : e \in Logged } = 1..(batch.file - 1)
           /\ (batch.pc = "Finished" <=> batch.file > NumFiles)

\* The classification of a crop of the first image failed while others were
\* in flight, and the second image was analyzed and written all the same.
C28_Witness ==
    /\ batch.pc = "Finished"
    /\ \E e \in Logged : e.file = 1 /\ e.crop = 2 /\ e.crops = 3
    /\ \E w \in Written : w.file = 2 /\ w.totalCards = 3 /\ w.totalSets = 1
    /\ batch.orphans > 0

\* C30: after any sequence of user actions the widget shows a preview if and
\* only if the page holds image data (and it is that image): Find Sets is
\* never offered for an image that is no longer shown, and the empty state
\* is never shown beside a preview.
C30_PreviewIffImageData ==
    /\ (upload.preview # "null") <=> (page.imageData # "null")
    /\ (page.imageData # "null" /\ page.result = "null") => upload.preview = page.imageData
    /\ page.imageData = "null" => upload.preview = "null"

====
